---- MODULE Spec2Model ----
(***************************************************************************)
(* Model of metacritic_scraper.py: the key normalizer                      *)
(* (create_metacritic_url), the fetcher (get_soup), the field extractor    *)
(* (parse_game_info) and the orchestrator (scrape_game_info).              *)
(*                                                                         *)
(* Strings are sequences of one-character strings, so that the regular     *)
(* expression substitutions of the source are computed character by        *)
(* character.                                                              *)
(***************************************************************************)
EXTENDS Integers, Sequences, FiniteSets, TLC

VARIABLES
    (* create_metacritic_url, applied to a title and again to its own key *)
    n_pc, n_title, n_key, n_rekey,
    (* parse_game_info, applied to one parsed document *)
    p_pc, p_doc, p_result,
    (* scrape_game_info *)
    pc, file_exists, json_input, catalogue, idx, url, soup,
    game_info, total_game_info_scraped, scrape_success_rate, csv,
    exit_code, exception, requests_log, events

n_vars == <<n_pc, n_title, n_key, n_rekey>>
p_vars == <<p_pc, p_doc, p_result>>
s_vars == <<pc, file_exists, json_input, catalogue, idx, url, soup,
            game_info, total_game_info_scraped, scrape_success_rate, csv,
            exit_code, exception, requests_log, events>>
vars == <<n_vars, p_vars, s_vars>>

(* Python's None, and the marker of a value that was never assigned. *)
None == <<"None">>
Unset == <<"unset">>

(***************************************************************************)
(* Characters                                                              *)
(***************************************************************************)
UpperChars == <<"A","B","C","D","E","F","G","H","I","J","K","L","M",
                "N","O","P","Q","R","S","T","U","V","W","X","Y","Z">>
LowerChars == <<"a","b","c","d","e","f","g","h","i","j","k","l","m",
                "n","o","p","q","r","s","t","u","v","w","x","y","z">>
Digits == {"0","1","2","3","4","5","6","7","8","9"}

RECURSIVE IndexOf(_, _, _)
IndexOf(seq, c, i) ==
    IF i > Len(seq) THEN 0
    ELSE IF seq[i] = c THEN i ELSE IndexOf(seq, c, i + 1)

(* str.lower(), one character *)
LowerChar(c) ==
    LET k == IndexOf(UpperChars, c, 1) IN IF k = 0 THEN c ELSE LowerChars[k]

(* str.lower() *)
Lower(s) == [i \in 1..Len(s) |-> LowerChar(s[i])]

(* the regular expression class \w *)
IsWord(c) ==
    \/ IndexOf(UpperChars, c, 1) # 0
    \/ IndexOf(LowerChars, c, 1) # 0
    \/ c \in Digits
    \/ c = "_"

(* the regular expression class \s *)
IsSpace(c) == c \in {" ", "\t", "\n"}

(* the regular expression class \d *)
IsDigit(c) == c \in Digits

(***************************************************************************)
(* create_metacritic_url                                                   *)
(***************************************************************************)
BASE_URL == <<"h","t","t","p","s",":","/","/","w","w","w",".",
              "m","e","t","a","c","r","i","t","i","c",".","c","o","m",
              "/","g","a","m","e","/">>

(* re.sub(r'[^\w\s+-]', '', title) *)
RemoveSymbols(s) ==
    SelectSeq(s, LAMBDA c : IsWord(c) \/ IsSpace(c) \/ c = "+" \/ c = "-")

RECURSIVE LStrip(_)
LStrip(s) ==
    IF s # <<>> /\ IsSpace(Head(s)) THEN LStrip(Tail(s)) ELSE s

RECURSIVE RStrip(_)
RStrip(s) ==
    IF s # <<>> /\ IsSpace(s[Len(s)]) THEN RStrip(SubSeq(s, 1, Len(s) - 1)) ELSE s

(* str.strip() *)
Strip(s) == RStrip(LStrip(s))

(* re.sub(r'\s-\s', ' ', s): leftmost matches, not overlapping *)
RECURSIVE CollapseSpacedHyphen(_)
CollapseSpacedHyphen(s) ==
    IF s = <<>> THEN <<>>
    ELSE IF Len(s) >= 3 /\ IsSpace(s[1]) /\ s[2] = "-" /\ IsSpace(s[3])
         THEN <<" ">> \o CollapseSpacedHyphen(SubSeq(s, 4, Len(s)))
         ELSE <<Head(s)>> \o CollapseSpacedHyphen(Tail(s))

(* variant: '+' is removed and nothing is put in its place *)
RECURSIVE ReplacePlus_Removed(_)
ReplacePlus_Removed(s) ==
    IF s = <<>> THEN <<>>
    ELSE IF Head(s) = "+"
         THEN ReplacePlus_Removed(Tail(s))
         ELSE <<Head(s)>> \o ReplacePlus_Removed(Tail(s))

(* re.sub(r'\+', 'plus', s) *)
RECURSIVE ReplacePlus(_)
ReplacePlus(s) ==
    IF s = <<>> THEN <<>>
    ELSE IF Head(s) = "+"
         THEN <<"p","l","u","s">> \o ReplacePlus(Tail(s))
         ELSE <<Head(s)>> \o ReplacePlus(Tail(s))

(* re.sub(r'\s+', '-', s): every maximal run of whitespace becomes one '-' *)
RECURSIVE WhitespaceToHyphen(_)
WhitespaceToHyphen(s) ==
    IF s = <<>> THEN <<>>
    ELSE IF IsSpace(Head(s))
         THEN <<"-">> \o WhitespaceToHyphen(LStrip(s))
         ELSE <<Head(s)>> \o WhitespaceToHyphen(Tail(s))

EDITION == <<"-","e","d","i","t","i","o","n">>

(* s ends with '-edition', compared case-insensitively (re.IGNORECASE) *)
EndsWithEdition(s) ==
    /\ Len(s) >= Len(EDITION)
    /\ Lower(SubSeq(s, Len(s) - Len(EDITION) + 1, Len(s))) = EDITION

(* first index of the run of \w characters that ends at index j (j + 1 if  *)
(* s[j] is not a \w character)                                             *)
RECURSIVE WordRunStart(_, _)
WordRunStart(s, j) ==
    IF j >= 1 /\ IsWord(s[j]) THEN WordRunStart(s, j - 1) ELSE j + 1

(* index at which r'-\w+-edition$' matches, 0 if it does not match *)
EditionMatchStart(s) ==
    IF ~EndsWithEdition(s) THEN 0
    ELSE LET j == Len(s) - Len(EDITION)
             w == WordRunStart(s, j)
         IN IF w <= j /\ w >= 2 /\ s[w - 1] = "-" THEN w - 1 ELSE 0

(* variant: the pattern is r'-edition$', without the token before it *)
StripEdition_NoToken(s) ==
    IF EndsWithEdition(s) THEN SubSeq(s, 1, Len(s) - Len(EDITION)) ELSE s

(* re.sub(r'-\w+-edition$', '', s, flags=re.IGNORECASE) *)
StripEdition(s) ==
    LET m == EditionMatchStart(s)
    IN IF m = 0 THEN s ELSE SubSeq(s, 1, m - 1)

(* the key segment create_metacritic_url puts between BASE_URL and '/' *)
mod_title(title) ==
    StripEdition(
        WhitespaceToHyphen(
            ReplacePlus(
                CollapseSpacedHyphen(
                    Lower(Strip(RemoveSymbols(title)))))))

create_metacritic_url(title) == BASE_URL \o mod_title(title) \o <<"/">>

(***************************************************************************)
(* Title inputs                                                            *)
(***************************************************************************)
MaxPieces == 4

Pieces == { <<"a">>, <<"B">>, <<" ">>, <<"-">>, <<"+">>, <<"!">>,
            <<"E","d","i","t","i","o","n">> }

RECURSIVE Concat(_)
Concat(ps) == IF ps = <<>> THEN <<>> ELSE Head(ps) \o Concat(Tail(ps))

(* the titles of create_metacritic_url_example *)
TitleArcade ==
    <<"A","r","c","a","d","e"," ","A","r","c","h","i","v","e","s"," ",
      "N","E","W"," ","R","A","L","L","Y","-","X">>
TitleOvercooked ==
    <<"O","v","e","r","c","o","o","k","e","d","!"," ","2"," ","-"," ",
      "G","o","u","r","m","e","t"," ","E","d","i","t","i","o","n">>
TitleCynthia ==
    <<"C","y","n","t","h","i","a",":"," ","H","i","d","d","e","n"," ",
      "i","n"," ","t","h","e"," ","M","o","o","n","s","h","a","d","o","w",
      " ","-"," ","P","r","e","m","i","u","m"," ","E","d","i","t","i","o","n">>
TitleNotes ==
    <<"N","o","t","e","s"," ","+"," ","S","t","i","c","k","e","r","s"," ",
      "C","o","m","p","l","e","t","e"," ","E","d","i","t","i","o","n">>

example_titles == {TitleArcade, TitleOvercooked, TitleCynthia, TitleNotes}

Titles ==
    example_titles \cup
    { Concat(ps) : ps \in UNION { [1..n -> Pieces] : n \in 0..MaxPieces } }

(***************************************************************************)
(* The normalizer applied to a title, then to the key it produced          *)
(***************************************************************************)
NormIdle == n_pc = "idle" /\ n_title = <<>> /\ n_key = Unset /\ n_rekey = Unset

NormInit ==
    /\ n_pc = "start"
    /\ n_title \in Titles
    /\ n_key = Unset
    /\ n_rekey = Unset

Normalize ==
    /\ n_pc = "start"
    /\ n_key' = mod_title(n_title)
    /\ n_pc' = "normalized"
    /\ UNCHANGED <<n_title, n_rekey>>

Renormalize ==
    /\ n_pc = "normalized"
    /\ n_rekey' = mod_title(n_key)
    /\ n_pc' = "renormalized"
    /\ UNCHANGED <<n_title, n_key>>


(***************************************************************************)
(* Parsed documents                                                        *)
(*                                                                         *)
(* A document is the set of the markup elements parse_game_info looks for  *)
(* that are present in it, and the text of the element each field reads.   *)
(* An element is named by the chain of find() calls that reaches it.       *)
(***************************************************************************)
Fields == {"meta_score", "meta_reviews", "user_score", "user_reviews",
           "release_date", "publisher", "genre"}

(* div 'c-productScoreInfo u-clearfix g-inner-spacing-bottom-medium' *)
MetaInfo == "div.productScoreInfo.g-inner-spacing-bottom-medium"
(* div 'c-productScoreInfo u-clearfix' *)
UserInfo == "div.productScoreInfo"

(* the chain of find() calls of each field; .text is read off the last *)
FindChain(f) ==
    CASE f = "meta_score" ->
           << MetaInfo,
              MetaInfo \o "/div.siteReviewScore_background-critic_medium",
              MetaInfo \o "/div.siteReviewScore_background-critic_medium/span" >>
      [] f = "meta_reviews" ->
           << MetaInfo,
              MetaInfo \o "/span.productScoreInfo_reviewsTotal",
              MetaInfo \o "/span.productScoreInfo_reviewsTotal/span" >>
      [] f = "user_score" ->
           << "div.siteReviewScore_background-user",
              "div.siteReviewScore_background-user/span" >>
      [] f = "user_reviews" ->
           << UserInfo,
              UserInfo \o "/span.productScoreInfo_reviewsTotal",
              UserInfo \o "/span.productScoreInfo_reviewsTotal/span" >>
      [] f = "release_date" ->
           << "div.gameDetails_ReleaseDate",
              "div.gameDetails_ReleaseDate/span.g-outer-spacing-left-medium-fluid" >>
      [] f = "publisher" ->
           << "div.gameDetails_Distributor",
              "div.gameDetails_Distributor/span.g-outer-spacing-left-medium-fluid" >>
      [] f = "genre" ->
           << "li.genreList_item",
              "li.genreList_item/span.globalButton_label" >>

Range(seq) == { seq[i] : i \in 1..Len(seq) }

AllNodes == UNION { Range(FindChain(f)) : f \in Fields }

(* an element is in a document only inside its parent *)
TreeShaped(nodes) ==
    \A f \in Fields : \A i \in 2..Len(FindChain(f)) :
        FindChain(f)[i] \in nodes => FindChain(f)[i - 1] \in nodes

(* Exceptions and results of evaluating an expression *)
Returns(v) == [exc |-> "none", val |-> v]
Raises(e) == [exc |-> e, val |-> None]

(* tag.find(...): the element, or None when the tag does not contain it *)
Find(doc, parent, child) ==
    IF parent = None THEN Raises("AttributeError")
    ELSE Returns(IF child \in doc.nodes THEN <<child>> ELSE None)

(* game.find(..).find(..) ... .text *)
RECURSIVE FindText(_, _, _, _)
FindText(doc, f, cur, path) ==
    IF path = <<>>
    THEN IF cur = None THEN Raises("AttributeError") ELSE Returns(doc.text[f])
    ELSE LET r == Find(doc, cur, Head(path))
         IN IF r.exc # "none" THEN r ELSE FindText(doc, f, r.val, Tail(path))

(* the document itself, the tag every chain starts from *)
Root == <<"[document]">>

ChainText(doc, f) == FindText(doc, f, Root, FindChain(f))


(***************************************************************************)
(* Text conversions of parse_game_info                                     *)
(***************************************************************************)
TBD == <<"t","b","d">>

(* number of \d characters at the start of s, at most max *)
RECURSIVE DigitRun(_, _)
DigitRun(s, max) ==
    IF max > 0 /\ s # <<>> /\ IsDigit(Head(s))
    THEN 1 + DigitRun(Tail(s), max - 1) ELSE 0

(* length of the match of (?:,\d{3})* at the start of s *)
RECURSIVE GroupsLen(_)
GroupsLen(s) ==
    IF Len(s) >= 4 /\ s[1] = "," /\ DigitRun(Tail(s), 3) = 3
    THEN 4 + GroupsLen(SubSeq(s, 5, Len(s))) ELSE 0

(* re.search(r'\d{1,3}(?:,\d{3})*', s): the matched text, None if no match *)
RECURSIVE ReSearchCount(_)
ReSearchCount(s) ==
    IF s = <<>> THEN None
    ELSE IF IsDigit(Head(s))
         THEN LET d == DigitRun(s, 3)
                  g == GroupsLen(SubSeq(s, d + 1, Len(s)))
              IN SubSeq(s, 1, d + g)
         ELSE ReSearchCount(Tail(s))

(* re.search(...).group().replace(',', '') *)
ReviewCount(s) ==
    LET m == ReSearchCount(s)
    IN IF m = None THEN Raises("AttributeError")
       ELSE Returns(SelectSeq(m, LAMBDA c : c # ","))

DigitSeq == <<"0","1","2","3","4","5","6","7","8","9">>
DigitVal(c) == IndexOf(DigitSeq, c, 1) - 1

RECURSIVE ToInt(_)
ToInt(s) ==
    IF s = <<>> THEN 0 ELSE 10 * ToInt(SubSeq(s, 1, Len(s) - 1)) + DigitVal(s[Len(s)])

AllDigits(s) == \A i \in 1..Len(s) : IsDigit(s[i])

(* the abbreviated month names of %b, lowercased *)
MonthAbbr == << <<"j","a","n">>, <<"f","e","b">>, <<"m","a","r">>,
                <<"a","p","r">>, <<"m","a","y">>, <<"j","u","n">>,
                <<"j","u","l">>, <<"a","u","g">>, <<"s","e","p">>,
                <<"o","c","t">>, <<"n","o","v">>, <<"d","e","c">> >>

IsLeap(y) == (y % 4 = 0 /\ y % 100 # 0) \/ y % 400 = 0

DaysInMonth(y, m) ==
    IF m = 2 THEN (IF IsLeap(y) THEN 29 ELSE 28)
    ELSE IF m \in {4, 6, 9, 11} THEN 30 ELSE 31

(* datetime.strptime(s, '%b %d, %Y'): month name, whitespace, a day of one *)
(* or two digits, a comma, whitespace, a year of four digits and nothing   *)
(* after it; a text of another shape, or a day the month does not have,    *)
(* raises ValueError                                                       *)
Strptime(s) ==
    LET m == IF Len(s) >= 3 THEN IndexOf(MonthAbbr, Lower(SubSeq(s, 1, 3)), 1) ELSE 0
        r1 == IF Len(s) >= 3 THEN SubSeq(s, 4, Len(s)) ELSE <<>>
        r2 == LStrip(r1)
        c == IndexOf(r2, ",", 1)
        dd == IF c >= 2 THEN SubSeq(r2, 1, c - 1) ELSE <<>>
        r3 == IF c >= 2 THEN SubSeq(r2, c + 1, Len(r2)) ELSE <<>>
        yy == LStrip(r3)
        shape == /\ m # 0
                 /\ r2 # r1
                 /\ Len(dd) \in {1, 2} /\ AllDigits(dd) /\ ToInt(dd) \in 1..31
                 /\ yy # r3
                 /\ Len(yy) = 4 /\ AllDigits(yy)
    IN IF ~shape THEN Raises("ValueError")
       ELSE IF ToInt(yy) < 1 \/ ToInt(dd) > DaysInMonth(ToInt(yy), m)
            THEN Raises("ValueError")
            ELSE Returns([year |-> ToInt(yy), month |-> m, day |-> ToInt(dd)])

(* a number as decimal digits, zero-padded to the given width *)
RECURSIVE Pad(_, _)
Pad(n, width) ==
    IF width = 0 THEN <<>> ELSE Pad(n \div 10, width - 1) \o <<DigitSeq[(n % 10) + 1]>>

(* .strftime('%d-%m-%Y') *)
Strftime(d) == Pad(d.day, 2) \o <<"-">> \o Pad(d.month, 2) \o <<"-">> \o Pad(d.year, 4)


(***************************************************************************)
(* parse_game_info                                                         *)
(***************************************************************************)
FieldOrder == <<"meta_score", "meta_reviews", "user_score", "user_reviews",
                "release_date", "publisher", "genre">>

(* the body of the try block of field f *)
Attempt(game, f) ==
    LET t == ChainText(game, f)
    IN IF t.exc # "none" THEN t
       ELSE CASE f \in {"meta_score", "user_score"} ->
                   Returns(IF Lower(t.val) = TBD THEN None ELSE t.val)
              [] f \in {"meta_reviews", "user_reviews"} -> ReviewCount(t.val)
              [] f = "release_date" ->
                   LET d == Strptime(t.val)
                   IN IF d.exc # "none" THEN d ELSE Returns(Strftime(d.val))
              [] f = "publisher" -> Returns(t.val)
              [] f = "genre" -> Returns(Strip(t.val))

(* try: ... except AttributeError: field = None *)
Try(attempt) ==
    IF attempt.exc = "AttributeError" THEN Returns(None) ELSE attempt

(* the first exception, in the order of the try blocks, that a block let through *)
RECURSIVE FirstRaised(_, _)
FirstRaised(r, order) ==
    IF order = <<>> THEN "none"
    ELSE IF r[Head(order)].exc # "none" THEN r[Head(order)].exc
         ELSE FirstRaised(r, Tail(order))

(* variant: one try block around the seven extractions, so that the first *)
(* AttributeError leaves every field None                                 *)
parse_game_info_OneTry(game) ==
    LET a == [f \in Fields |-> Attempt(game, f)]
        e == FirstRaised(a, FieldOrder)
    IN IF e = "AttributeError" THEN Returns([f \in Fields |-> None])
       ELSE IF e # "none" THEN Raises(e)
       ELSE Returns([f \in Fields |-> a[f].val])

parse_game_info(game) ==
    LET r == [f \in Fields |-> Try(Attempt(game, f))]
        e == FirstRaised(r, FieldOrder)
    IN IF e # "none" THEN Raises(e) ELSE Returns([f \in Fields |-> r[f].val])

(***************************************************************************)
(* Document inputs                                                         *)
(***************************************************************************)
TextsRated ==
    [ meta_score |-> <<"8","5">>,
      meta_reviews |-> <<"1",",","2","3","4"," ","R","a","t","i","n","g","s">>,
      user_score |-> <<"7",".","9">>,
      user_reviews |-> <<"1","2"," ","R","a","t","i","n","g","s">>,
      release_date |-> <<"J","a","n"," ","0","5",","," ","2","0","2","4">>,
      publisher |-> <<"N","i","n","t","e","n","d","o">>,
      genre |-> <<"\n"," ","R","P","G"," ">> ]

TextsUnrated ==
    [ meta_score |-> <<"t","b","d">>,
      meta_reviews |-> <<"N","o"," ","R","a","t","i","n","g","s">>,
      user_score |-> <<"T","B","D">>,
      user_reviews |-> <<>>,
      release_date |-> <<"D","e","c"," ","1",","," ","1","9","9","9">>,
      publisher |-> <<"N","/","A">>,
      genre |-> <<>> ]

TextsUndated ==
    [ meta_score |-> <<"t","b","d">>,
      meta_reviews |-> <<"1","2","3","4","5">>,
      user_score |-> <<"8",".","0">>,
      user_reviews |-> <<"1",",","2","3","4","5"," ","x">>,
      release_date |-> <<"T","B","A">>,
      publisher |-> <<"N","/","A">>,
      genre |-> <<"S","i","m">> ]

TextsBadDay ==
    [ meta_score |-> <<"N","/","A">>,
      meta_reviews |-> <<"7">>,
      user_score |-> <<"t","b","d">>,
      user_reviews |-> <<"1",",","2","3">>,
      release_date |-> <<"F","e","b"," ","3","0",","," ","2","0","2","4">>,
      publisher |-> <<>>,
      genre |-> <<"R","P","G"," ">> ]

TextProfiles == {TextsRated, TextsUnrated, TextsUndated, TextsBadDay}

Documents ==
    { [nodes |-> n, text |-> t] :
        n \in { m \in SUBSET AllNodes : TreeShaped(m) }, t \in TextProfiles }

(***************************************************************************)
(* The extractor applied to one document                                   *)
(***************************************************************************)
NoDocument == [nodes |-> {}, text |-> TextsRated]

ParseIdle == p_pc = "idle" /\ p_doc = NoDocument /\ p_result = Unset

ParseInit ==
    /\ p_pc = "start"
    /\ p_doc \in Documents
    /\ p_result = Unset

ParseDocument ==
    /\ p_pc = "start"
    /\ p_result' = parse_game_info(p_doc)
    /\ p_pc' = "parsed"
    /\ UNCHANGED p_doc


(***************************************************************************)
(* get_soup                                                                *)
(***************************************************************************)
(* the exceptions of the requests library that are RequestExceptions *)
RequestExceptions ==
    {"RequestException", "ConnectionError", "Timeout", "HTTPError",
     "ChunkedEncodingError", "ContentDecodingError"}

(* requests.get(url, headers=headers): the response, or the exception of a *)
(* request that could not be sent or whose body could not be read          *)
requests_get(net) ==
    IF net.transport # "ok" THEN Raises(net.transport)
    ELSE Returns([status_code |-> net.status, text |-> net.doc])

(* response.raise_for_status() *)
raise_for_status(resp) ==
    IF resp.status_code \in 400..599 THEN Raises("HTTPError") ELSE Returns(None)

(* BeautifulSoup(response.text, 'lxml'): the object that holds the parsed  *)
(* tree, and the tree it holds                                             *)
BeautifulSoup(markup) == <<"BeautifulSoup", markup>>
Tree(parsed) == parsed[2]

(* variant: except requests.HTTPError *)
ExceptRequestException_OnlyHTTPError(attempt) ==
    IF attempt.exc = "HTTPError" THEN Returns(None) ELSE attempt

(* except requests.RequestException as e: print; return None *)
ExceptRequestException(attempt) ==
    IF attempt.exc \in RequestExceptions THEN Returns(None) ELSE attempt

get_soup(net) ==
    LET resp == requests_get(net)
        body == IF resp.exc # "none" THEN resp
                ELSE LET st == raise_for_status(resp.val)
                     IN IF st.exc # "none" THEN st
                        ELSE Returns(BeautifulSoup(resp.val.text))
    IN ExceptRequestException(body)

(***************************************************************************)
(* What the network can answer to one request                              *)
(***************************************************************************)
DocRated == [nodes |-> AllNodes, text |-> TextsRated]
DocSparse ==
    [nodes |-> {MetaInfo, "div.gameDetails_Distributor",
                "div.gameDetails_Distributor/span.g-outer-spacing-left-medium-fluid",
                "div.gameDetails_ReleaseDate",
                "div.gameDetails_ReleaseDate/span.g-outer-spacing-left-medium-fluid"},
     text |-> TextsUnrated]
DocUndated == [nodes |-> AllNodes, text |-> TextsUndated]

Pages == {DocRated, DocSparse, DocUndated}

NetworkOutcomes ==
    { [transport |-> "ok", status |-> 200, doc |-> d] : d \in Pages }
    \cup { [transport |-> "ok", status |-> 404, doc |-> NoDocument] }
    \cup { [transport |-> t, status |-> 0, doc |-> NoDocument] :
             t \in {"ConnectionError", "ChunkedEncodingError"} }

(***************************************************************************)
(* Catalogue inputs                                                        *)
(***************************************************************************)
MaxGames == 2

NA == <<"N","/","A">>

CatalogueTitles == { TitleNotes, <<"a"," ","-"," ","B","!">> }

(* a record of the input file: a title, and possibly values of some of the *)
(* seven fields left by an earlier run                                     *)
CatalogueRecords ==
    { [title |-> t] : t \in CatalogueTitles }
    \cup { [title |-> TitleNotes, meta_score |-> <<"9","9">>, genre |-> NA] }

Catalogues == UNION { [1..n -> CatalogueRecords] : n \in 0..MaxGames }

(***************************************************************************)
(* scrape_game_info                                                        *)
(***************************************************************************)
(* variant: keys the record already has keep their values (setdefault) *)
Update_KeepExisting(game, new) ==
    [k \in (DOMAIN game) \cup (DOMAIN new) |->
        IF k \in DOMAIN game THEN game[k] ELSE new[k]]

(* dict.update *)
Update(game, new) ==
    [k \in (DOMAIN game) \cup (DOMAIN new) |->
        IF k \in DOMAIN new THEN new[k] ELSE game[k]]

(* total_game_info_scraped / len(catalogue), as the fraction it denotes *)
Divide(a, b) ==
    IF b = 0 THEN Raises("ZeroDivisionError")
    ELSE Returns([num |-> a, den |-> b])

ScrapeIdle ==
    /\ pc = "idle" /\ file_exists = FALSE /\ json_input = <<>>
    /\ catalogue = <<>> /\ idx = 0 /\ url = Unset /\ soup = Unset
    /\ game_info = Unset /\ total_game_info_scraped = 0
    /\ scrape_success_rate = Unset /\ csv = Unset /\ exit_code = -1
    /\ exception = "none" /\ requests_log = <<>> /\ events = <<>>

ScrapeInit ==
    /\ pc = "open"
    /\ file_exists \in BOOLEAN
    /\ json_input \in (IF file_exists THEN Catalogues ELSE {<<>>})
    /\ catalogue = <<>> /\ idx = 0 /\ url = Unset /\ soup = Unset
    /\ game_info = Unset /\ total_game_info_scraped = 0
    /\ scrape_success_rate = Unset /\ csv = Unset /\ exit_code = -1
    /\ exception = "none" /\ requests_log = <<>> /\ events = <<>>

(* an exception nothing catches ends the process *)
Crash(e) == pc' = "crashed" /\ exception' = e /\ exit_code' = 1

(* variant: sys.exit() without a status, which exits with status 0 *)
OpenCatalogue_ExitZero ==
    /\ pc = "open"
    /\ IF file_exists
       THEN /\ catalogue' = json_input
            /\ pc' = "for"
            /\ UNCHANGED exit_code
       ELSE /\ pc' = "exited"
            /\ exit_code' = 0
            /\ UNCHANGED catalogue
    /\ UNCHANGED <<file_exists, json_input, idx, url, soup, game_info,
                   total_game_info_scraped, scrape_success_rate, csv,
                   exception, requests_log, events>>

(* with open(json_file) ... json.load; except FileNotFoundError: sys.exit(1) *)
OpenCatalogue ==
    /\ pc = "open"
    /\ IF file_exists
       THEN /\ catalogue' = json_input
            /\ pc' = "for"
            /\ UNCHANGED exit_code
       ELSE /\ pc' = "exited"
            /\ exit_code' = 1
            /\ UNCHANGED catalogue
    /\ UNCHANGED <<file_exists, json_input, idx, url, soup, game_info,
                   total_game_info_scraped, scrape_success_rate, csv,
                   exception, requests_log, events>>

(* for game in catalogue: title = game['title']; url = create_metacritic_url(title) *)
NextGame ==
    /\ pc = "for"
    /\ idx < Len(catalogue)
    /\ idx' = idx + 1
    /\ url' = create_metacritic_url(catalogue[idx + 1].title)
    /\ events' = Append(events, [op |-> "normalize", i |-> idx + 1])
    /\ pc' = "get_soup"
    /\ UNCHANGED <<file_exists, json_input, catalogue, soup, game_info,
                   total_game_info_scraped, scrape_success_rate, csv,
                   exit_code, exception, requests_log>>

(* variant: a failed request is issued a second time *)
Fetch_RetryOnce ==
    /\ pc = "get_soup"
    /\ \E net \in NetworkOutcomes, again \in NetworkOutcomes :
          LET first == get_soup(net)
              retry == first.exc = "none" /\ first.val = None
              r == IF retry THEN get_soup(again) ELSE first
              one == Append(requests_log, [url |-> url, net |-> net])
              ev == Append(events, [op |-> "request", i |-> idx])
          IN /\ requests_log' =
                   IF retry THEN Append(one, [url |-> url, net |-> again]) ELSE one
             /\ events' =
                   IF retry THEN Append(ev, [op |-> "request", i |-> idx]) ELSE ev
             /\ IF r.exc # "none"
                THEN Crash(r.exc) /\ UNCHANGED soup
                ELSE /\ soup' = r.val
                     /\ pc' = "if_soup"
                     /\ UNCHANGED <<exit_code, exception>>
    /\ UNCHANGED <<file_exists, json_input, catalogue, idx, url, game_info,
                   total_game_info_scraped, scrape_success_rate, csv>>

(* soup = get_soup(url, request_headers): one request, whatever its outcome *)
Fetch ==
    /\ pc = "get_soup"
    /\ \E net \in NetworkOutcomes :
          LET r == get_soup(net)
          IN /\ requests_log' = Append(requests_log, [url |-> url, net |-> net])
             /\ events' = Append(events, [op |-> "request", i |-> idx])
             /\ IF r.exc # "none"
                THEN Crash(r.exc) /\ UNCHANGED soup
                ELSE /\ soup' = r.val
                     /\ pc' = "if_soup"
                     /\ UNCHANGED <<exit_code, exception>>
    /\ UNCHANGED <<file_exists, json_input, catalogue, idx, url, game_info,
                   total_game_info_scraped, scrape_success_rate, csv>>

UnavailableInfo == [f \in Fields |-> NA]

(* if soup: parse, count, game.update(game_info) else: game.update('N/A') *)
Enrich ==
    /\ pc = "if_soup"
    /\ IF soup # None
       THEN LET r == parse_game_info(Tree(soup))
            IN IF r.exc # "none"
               THEN /\ Crash(r.exc)
                    /\ UNCHANGED <<catalogue, game_info,
                                   total_game_info_scraped, events>>
               ELSE /\ game_info' = r.val
                    /\ total_game_info_scraped' = total_game_info_scraped + 1
                    /\ catalogue' =
                          [catalogue EXCEPT ![idx] = Update(@, r.val)]
                    /\ events' = Append(events, [op |-> "update", i |-> idx])
                    /\ pc' = "for"
                    /\ UNCHANGED <<exit_code, exception>>
       ELSE /\ catalogue' =
                  [catalogue EXCEPT ![idx] = Update(@, UnavailableInfo)]
            /\ events' = Append(events, [op |-> "update", i |-> idx])
            /\ pc' = "for"
            /\ UNCHANGED <<game_info, total_game_info_scraped,
                           exit_code, exception>>
    /\ UNCHANGED <<file_exists, json_input, idx, url, soup,
                   scrape_success_rate, csv, requests_log>>

(* scrape_success_rate = total_game_info_scraped / len(catalogue); print *)
Statistics ==
    /\ pc = "for"
    /\ idx = Len(catalogue)
    /\ LET r == Divide(total_game_info_scraped, Len(catalogue))
       IN IF r.exc # "none"
          THEN Crash(r.exc) /\ UNCHANGED scrape_success_rate
          ELSE /\ scrape_success_rate' = r.val
               /\ pc' = "to_csv"
               /\ UNCHANGED <<exit_code, exception>>
    /\ UNCHANGED <<file_exists, json_input, catalogue, idx, url, soup,
                   game_info, total_game_info_scraped, csv, requests_log,
                   events>>

(* DataFrame(...).to_csv(path): the file, and the rows it holds *)
to_csv(rows) == <<"csv", rows>>
Rows(file) == file[2]

(* variant: records whose lookup failed are left out of the file *)
WriteCsv_DropUnavailable ==
    /\ pc = "to_csv"
    /\ csv' = to_csv(SelectSeq(catalogue,
                        LAMBDA g : g["meta_reviews"] # <<"N","/","A">>))
    /\ pc' = "done"
    /\ exit_code' = 0
    /\ UNCHANGED <<file_exists, json_input, catalogue, idx, url, soup,
                   game_info, total_game_info_scraped, scrape_success_rate,
                   exception, requests_log, events>>

(* pd.DataFrame(catalogue).to_csv(...): one row per record, in order *)
WriteCsv ==
    /\ pc = "to_csv"
    /\ csv' = to_csv(catalogue)
    /\ pc' = "done"
    /\ exit_code' = 0
    /\ UNCHANGED <<file_exists, json_input, catalogue, idx, url, soup,
                   game_info, total_game_info_scraped, scrape_success_rate,
                   exception, requests_log, events>>

(***************************************************************************)
(* Specifications                                                          *)
(***************************************************************************)
Init == NormIdle /\ ParseIdle /\ ScrapeInit

Next ==
    \/ OpenCatalogue /\ UNCHANGED <<n_vars, p_vars>>
    \/ NextGame /\ UNCHANGED <<n_vars, p_vars>>
    \/ Fetch /\ UNCHANGED <<n_vars, p_vars>>
    \/ Enrich /\ UNCHANGED <<n_vars, p_vars>>
    \/ Statistics /\ UNCHANGED <<n_vars, p_vars>>
    \/ WriteCsv /\ UNCHANGED <<n_vars, p_vars>>

Spec == Init /\ [][Next]_vars

NormalizeInit == NormInit /\ ParseIdle /\ ScrapeIdle

NormalizeNext ==
    \/ Normalize /\ UNCHANGED <<p_vars, s_vars>>
    \/ Renormalize /\ UNCHANGED <<p_vars, s_vars>>

NormalizeSpec == NormalizeInit /\ [][NormalizeNext]_vars

ExtractInit == NormIdle /\ ParseInit /\ ScrapeIdle

ExtractNext == ParseDocument /\ UNCHANGED <<n_vars, s_vars>>

ExtractSpec == ExtractInit /\ [][ExtractNext]_vars


(***************************************************************************)
(* Properties                                                              *)
(***************************************************************************)
(* the network answered request k with a document *)
IsDocument(net) == net.transport = "ok" /\ net.status \in 200..299

(* record i has been through the update of the loop body *)
Processed(i) == \E k \in 1..Len(events) : events[k] = [op |-> "update", i |-> i]

(* the value field f has after the lookup of a record answered by net *)
Extracted(net, f) == Try(Attempt(net.doc, f)).val

(* C1: every record the loop has updated either holds 'N/A' in all seven   *)
(* fields (its request returned no document) or holds in all seven fields  *)
(* the null or value extracted from the document its request returned,     *)
(* whatever values of the seven fields the input record carried; the two   *)
(* cases never coincide.                                                   *)
C1_AllSevenOrUnavailable ==
    \A i \in 1..Len(catalogue) :
        Processed(i) =>
            LET g == catalogue[i]
                net == requests_log[i].net
            IN /\ Fields \subseteq DOMAIN g
               /\ IF IsDocument(net)
                  THEN /\ \A f \in Fields : g[f] = Extracted(net, f)
                       /\ \E f \in Fields : g[f] # NA
                  ELSE \A f \in Fields : g[f] = NA

C1_Witness ==
    /\ pc = "done"
    /\ \E i, j \in 1..Len(Rows(csv)) :
          /\ "genre" \in DOMAIN json_input[i]
          /\ IsDocument(requests_log[i].net)
          /\ Rows(csv)[i]["genre"] = None
          /\ Rows(csv)[i]["publisher"] = NA
          /\ "meta_score" \in DOMAIN json_input[j]
          /\ ~IsDocument(requests_log[j].net)
          /\ Rows(csv)[j]["meta_score"] = NA

(* C2: the file that is written has one row per input record, and row i is *)
(* input record i: same title and same other input columns, in input       *)
(* order, whether the lookup of the record succeeded or failed.            *)
C2_OrderAndCardinality ==
    csv # Unset =>
        /\ Len(Rows(csv)) = Len(json_input)
        /\ \A i \in 1..Len(json_input) :
              /\ DOMAIN json_input[i] \subseteq DOMAIN Rows(csv)[i]
              /\ \A k \in (DOMAIN json_input[i]) \ Fields :
                    Rows(csv)[i][k] = json_input[i][k]

C2_Witness ==
    /\ csv # Unset
    /\ Len(Rows(csv)) = 2
    /\ Rows(csv)[1].title # Rows(csv)[2].title
    /\ ~IsDocument(requests_log[1].net)
    /\ IsDocument(requests_log[2].net)

(* number of requests of the log that returned a document *)
Successes == Cardinality({ k \in 1..Len(requests_log) : IsDocument(requests_log[k].net) })

(* C3: the success rate equals (records whose request returned a document) *)
(* / (records attempted) for a non-empty catalogue, and for an empty       *)
(* catalogue the run does not crash: it reaches the statistics and the     *)
(* write.                                                                  *)
C3_SuccessRateDefined ==
    /\ pc \in {"to_csv", "done"} =>
          /\ scrape_success_rate.den # 0
          /\ scrape_success_rate.num * Len(json_input)
                = Successes * scrape_success_rate.den
    /\ (file_exists /\ json_input = <<>>) => pc # "crashed"

(* the field's markup is missing from the document *)
Missing(doc, f) == ~(Range(FindChain(f)) \subseteq doc.nodes)

(* C4: parse_game_info raises for no document; a release-date text that    *)
(* does not parse becomes a null release_date.                             *)
C4_ParseNeverRaises ==
    p_pc = "parsed" =>
        /\ p_result.exc = "none"
        /\ (~Missing(p_doc, "release_date")
              /\ Strptime(p_doc.text["release_date"]).exc # "none")
             => p_result.val["release_date"] = None

LoopOps == <<"normalize", "request", "update">>

(* C6: one request per record, in input order, none repeated: the events   *)
(* of a pass are normalize 1, request 1, update 1, normalize 2, ..., the   *)
(* request of record i goes to the URL of record i, and a completed pass   *)
(* has issued as many requests as there are records.                       *)
C6_OneRequestPerRecord ==
    /\ \A k \in 1..Len(events) :
          events[k] = [op |-> LoopOps[((k - 1) % 3) + 1], i |-> ((k - 1) \div 3) + 1]
    /\ Len(requests_log) <= Len(json_input)
    /\ \A k \in 1..Len(requests_log) :
          requests_log[k].url
             = BASE_URL \o mod_title(json_input[k].title) \o <<"/">>
    /\ pc \in {"to_csv", "done"} => Len(requests_log) = Len(json_input)
    /\ pc = "crashed" /\ exception = "ZeroDivisionError" => requests_log = <<>>

C6_Witness ==
    /\ pc = "done"
    /\ Len(requests_log) = 2
    /\ ~IsDocument(requests_log[1].net)
    /\ requests_log[1].url # requests_log[2].url

(* the document with every element present and the same texts *)
Complete(doc) == [nodes |-> AllNodes, text |-> doc.text]

(* C7: missing markup nulls exactly the fields it belongs to: in the       *)
(* result for a document, a field whose markup is missing is null and      *)
(* every other field has the value it has when no markup is missing; and   *)
(* whether parse_game_info returns at all does not depend on the markup of *)
(* the fields other than the one whose text it fails on.                   *)
C7_FaultIsolated ==
    p_pc = "parsed" =>
        /\ p_result.exc =
              IF Missing(p_doc, "release_date") THEN "none"
              ELSE parse_game_info(Complete(p_doc)).exc
        /\ p_result.exc = "none" =>
              \A f \in Fields :
                  p_result.val[f] =
                      IF Missing(p_doc, f) THEN None
                      ELSE Try(Attempt(Complete(p_doc), f)).val

C7_Witness ==
    /\ p_pc = "parsed"
    /\ Missing(p_doc, "genre")
    /\ Missing(p_doc, "meta_score")
    /\ \A f \in Fields \ {"genre", "meta_score"} : ~Missing(p_doc, f)
    /\ p_result.exc = "none"
    /\ p_result.val["genre"] = None
    /\ p_result.val["meta_score"] = None
    /\ p_result.val["meta_reviews"] = <<"1","2","3","4">>
    /\ p_result.val["release_date"] = <<"0","5","-","0","1","-","2","0","2","4">>

(* C8: when the input file does not exist the process ends with status 1   *)
(* at the open, before any key is normalized or request issued, and no     *)
(* file is written.                                                        *)
C8_MissingInputFatal ==
    ~file_exists =>
        /\ events = <<>>
        /\ requests_log = <<>>
        /\ url = Unset
        /\ csv = Unset
        /\ pc \in {"open", "exited"}
        /\ pc = "exited" => exit_code = 1

C8_Witness == ~file_exists /\ pc = "exited"

KeyArcade == <<"a","r","c","a","d","e","-","a","r","c","h","i","v","e","s","-","n","e","w","-","r","a","l","l","y","-","x">>
KeyOvercooked == <<"o","v","e","r","c","o","o","k","e","d","-","2">>
KeyNotes == <<"n","o","t","e","s","-","p","l","u","s","-","s","t","i","c","k","e","r","s">>
KeyNotesClaimed == <<"n","o","t","e","s","p","l","u","s","-","s","t","i","c","k","e","r","s">>

(* C9 as stated: "Notes + Stickers Complete Edition" yields                *)
(* notesplus-stickers, "Overcooked! 2 - Gourmet Edition" overcooked-2 and  *)
(* "Arcade Archives NEW RALLY-X" arcade-archives-new-rally-x.              *)
C9_AsStated ==
    n_pc = "normalized" =>
        /\ n_title = TitleNotes => n_key = KeyNotesClaimed
        /\ n_title = TitleOvercooked => n_key = KeyOvercooked
        /\ n_title = TitleArcade => n_key = KeyArcade

(* C9: create_metacritic_url applies the '+' substitution and the edition  *)
(* strip in its step order, so that "Notes + Stickers Complete Edition"    *)
(* yields notes-plus-stickers (the spaces around '+' become hyphens),      *)
(* "Overcooked! 2 - Gourmet Edition" overcooked-2 and "Arcade Archives NEW *)
(* RALLY-X" arcade-archives-new-rally-x.                                   *)
C9_ExampleKeys ==
    n_pc = "normalized" =>
        /\ n_title = TitleNotes => n_key = KeyNotes
        /\ n_title = TitleOvercooked => n_key = KeyOvercooked
        /\ n_title = TitleArcade => n_key = KeyArcade

C9_Witness == n_pc = "normalized" /\ n_title = TitleNotes /\ n_key = KeyNotes

(* k ends in '-<token>-edition' *)
HasEditionSuffix(k) ==
    \E i \in 1..Len(k) :
        /\ k[i] = "-"
        /\ Len(k) - i > Len(EDITION)
        /\ SubSeq(k, Len(k) - Len(EDITION) + 1, Len(k)) = EDITION
        /\ \A j \in (i + 1)..(Len(k) - Len(EDITION)) : IsWord(k[j])

====
